---- MODULE Spec2Model ----
(***************************************************************************)
(* Model of the responsive scaling engine of racedisplayenhanced           *)
(* (utils/responsiveScaling.js): the debounced resize observer             *)
(* createResponsiveObserver, the text fitter intelligentTextFit and the    *)
(* dimension solver getOptimalDimensions.                                  *)
(*                                                                         *)
(* The specifications share the variables:                                 *)
(*   Spec      - the observer: window listeners, the timer table, time     *)
(*   ReleaseSpec - the observer, with repeated cleanup calls on record     *)
(*   FitSpec   - one element fitted by intelligentTextFit, step by step    *)
(*   SolveSpec - getOptimalDimensions applied to bounded viewports         *)
(*   ScaleSpec - responsiveFontSize, pixelsToViewport and the custom       *)
(*               properties of generateScaleProperties                     *)
(*   ConvSpec  - the places that turn a pixel font size into a scale step  *)
(*   ApplySpec - applyResponsiveScaling over the text elements of a        *)
(*               container                                                 *)
(*   QuietSpec - the observer when no event arrives, with fairness         *)
(*   CompSpec  - a display component, the observers its effects create     *)
(*               and release, and the viewport they lay out for            *)
(* Each specification keeps the variables of the others constant.          *)
(***************************************************************************)
EXTENDS Integers, Sequences, FiniteSets, TLC

VARIABLES
    \* ---- observer (Spec) ----
    now,             \* wall clock, ms
    timers,          \* the host's pending timers: records [id, owner, deadline]
    resizeTimeout,   \* per observer closure: the id last returned by setTimeout (0 = undefined)
    resizeListeners, \* observers whose handleResize is registered on window
    orientListeners, \* observers whose handleOrientationChange is registered on window
    phase,           \* per observer: "none" (not created), "active", "released"
    hasCallback,     \* per observer: a callback was passed
    applyCount,      \* per observer: applyResponsiveScaling invocations so far
    callbackCount,   \* per observer: callback invocations so far
    appliesSinceSignal, \* per observer: invocations since the last signal it received
    lastSignalAt,    \* per observer: time of the last signal not yet followed by an invocation (-1 none)
    burstReset,      \* per observer: a signal replaced a timer armed at an earlier time and none has fired since
    orientAt,        \* per observer: time of an orientation change not yet followed by an invocation (-1 none)
    cancelledAtRelease, \* per observer: a timer was pending when cleanup ran
    signalAfterRelease, \* per observer: window dispatched an event after its cleanup ran
    releasedAgain,   \* a cleanup function ran again on an observer already released
    \* ---- text fitter (FitSpec) ----
    fit,
    \* ---- dimension solver (SolveSpec) ----
    solve,
    \* ---- derived custom properties (ScaleSpec) ----
    props,
    \* ---- pixel to scale-step conversion sites (ConvSpec) ----
    conv,
    \* ---- applyResponsiveScaling over a container (ApplySpec) ----
    apply,
    \* ---- a display component and its observers (CompSpec) ----
    comp

obsVars == <<now, timers, resizeTimeout, resizeListeners, orientListeners, phase,
             hasCallback, applyCount, callbackCount, appliesSinceSignal,
             lastSignalAt, burstReset, orientAt, cancelledAtRelease,
             signalAfterRelease, releasedAgain>>

vars == <<obsVars, fit, solve, props, conv, apply, comp>>

Max(a, b) == IF a >= b THEN a ELSE b

(***************************************************************************)
(* Observer: createResponsiveObserver                                      *)
(***************************************************************************)

\* The observers that may be created (each call of createResponsiveObserver
\* makes one closure with its own resizeTimeout).
Handles == {1, 2}

DebounceMs == 150          \* const { debounceMs = 150 } = options
SettleDelayMs == 100       \* scheduleResize(100) in handleOrientationChange
TickMs == 50               \* granularity of the modelled clock
MaxTime == 300             \* the clock stops here

NoTime == 0 - 1

\* clearTimeout(id): removes the pending timer with that id, if any.
ClearTimeoutShared(ts, id) == IF id = 0 THEN ts ELSE {}
ClearTimeout(ts, id) == {t \in ts : t.id # id}

\* A timer id the host has not handed out to a timer still pending or still
\* referenced by a closure (ids are opaque; the host never reuses a live one).
FreshId(ts, rt) ==
    CHOOSE i \in 1..(Cardinality(ts) + Cardinality(Handles) + 1) :
        /\ \A t \in ts : t.id # i
        /\ \A h \in Handles : rt[h] # i

\* setTimeout(fn, delay) called by observer h: a new pending timer.
SetTimeout(ts, rt, h, delay) ==
    ts \cup {[id |-> FreshId(ts, rt), owner |-> h, deadline |-> now + delay]}

\* scheduleResize(extraDelay) of observer h on the host state st = [timers, rt]:
\* clearTimeout(resizeTimeout); resizeTimeout = setTimeout(..., debounceMs + extraDelay)
ScheduleResizeNoClear(st, h, extraDelay) ==
    LET id == FreshId(st.timers, st.rt)
    IN  [timers |-> SetTimeout(st.timers, st.rt, h, DebounceMs + extraDelay),
         rt     |-> [st.rt EXCEPT ![h] = id]]

scheduleResize(st, h, extraDelay) ==
    LET cleared == ClearTimeout(st.timers, st.rt[h])
        id      == FreshId(cleared, st.rt)
    IN  [timers |-> SetTimeout(cleared, st.rt, h, DebounceMs + extraDelay),
         rt     |-> [st.rt EXCEPT ![h] = id]]

\* A window event dispatched to the registered listeners hs, one after the other.
RECURSIVE Dispatch(_, _, _)
Dispatch(hs, st, extraDelay) ==
    IF hs = {} THEN st
    ELSE LET h == CHOOSE x \in hs : \A y \in hs : x <= y
         IN  Dispatch(hs \ {h}, scheduleResize(st, h, extraDelay), extraDelay)

PendingOf(h) == {t \in timers : t.owner = h}

ObsInit ==
    /\ now = 0
    /\ timers = {}
    /\ resizeTimeout = [h \in Handles |-> 0]
    /\ resizeListeners = {}
    /\ orientListeners = {}
    /\ phase = [h \in Handles |-> "none"]
    /\ hasCallback = [h \in Handles |-> FALSE]
    /\ applyCount = [h \in Handles |-> 0]
    /\ callbackCount = [h \in Handles |-> 0]
    /\ appliesSinceSignal = [h \in Handles |-> 0]
    /\ lastSignalAt = [h \in Handles |-> NoTime]
    /\ burstReset = [h \in Handles |-> FALSE]
    /\ orientAt = [h \in Handles |-> NoTime]
    /\ cancelledAtRelease = [h \in Handles |-> FALSE]
    /\ signalAfterRelease = [h \in Handles |-> FALSE]
    /\ releasedAgain = FALSE

\* Bookkeeping of a signal received by the observers hs.
NoteSignal(hs) ==
    /\ appliesSinceSignal' = [h \in Handles |-> IF h \in hs THEN 0 ELSE appliesSinceSignal[h]]
    /\ lastSignalAt' = [h \in Handles |-> IF h \in hs THEN now ELSE lastSignalAt[h]]
    /\ burstReset' = [h \in Handles |->
                        IF h \in hs
                        THEN \E t \in PendingOf(h) :
                                 t.id = resizeTimeout[h] /\ lastSignalAt[h] < now
                        ELSE burstReset[h]]
    /\ signalAfterRelease' = [h \in Handles |->
                                signalAfterRelease[h] \/ phase[h] = "released"]

\* createResponsiveObserver(container, callback, options): registers both
\* listeners and runs handleResize() once.
createResponsiveObserverNoInitial(h, cb) ==
    /\ phase[h] = "none"
    /\ \A g \in Handles : g < h => phase[g] # "none"
    /\ resizeListeners' = resizeListeners \cup {h}
    /\ orientListeners' = orientListeners \cup {h}
    /\ phase' = [phase EXCEPT ![h] = "active"]
    /\ hasCallback' = [hasCallback EXCEPT ![h] = cb]
    /\ NoteSignal({h})
    /\ UNCHANGED <<now, timers, resizeTimeout, applyCount, callbackCount, orientAt,
                   cancelledAtRelease, releasedAgain,
                   fit, solve, props, conv, apply, comp>>

createResponsiveObserver(h, cb) ==
    /\ phase[h] = "none"
    /\ \A g \in Handles : g < h => phase[g] # "none"
    /\ LET st == scheduleResize([timers |-> timers, rt |-> resizeTimeout], h, 0)
       IN  /\ timers' = st.timers
           /\ resizeTimeout' = st.rt
    /\ resizeListeners' = resizeListeners \cup {h}
    /\ orientListeners' = orientListeners \cup {h}
    /\ phase' = [phase EXCEPT ![h] = "active"]
    /\ hasCallback' = [hasCallback EXCEPT ![h] = cb]
    /\ NoteSignal({h})
    /\ UNCHANGED <<now, applyCount, callbackCount, orientAt,
                   cancelledAtRelease, releasedAgain,
                   fit, solve, props, conv, apply, comp>>

\* window 'resize': every registered handleResize runs scheduleResize().
handleResize ==
    /\ LET st == Dispatch(resizeListeners, [timers |-> timers, rt |-> resizeTimeout], 0)
       IN  /\ timers' = st.timers
           /\ resizeTimeout' = st.rt
    /\ NoteSignal(resizeListeners)
    /\ UNCHANGED <<now, resizeListeners, orientListeners, phase, hasCallback,
                   applyCount, callbackCount, orientAt,
                   cancelledAtRelease, releasedAgain,
                   fit, solve, props, conv, apply, comp>>

\* window 'orientationchange': every registered handleOrientationChange runs
\* scheduleResize(100).
handleOrientationChange ==
    /\ LET st == Dispatch(orientListeners, [timers |-> timers, rt |-> resizeTimeout],
                          SettleDelayMs)
       IN  /\ timers' = st.timers
           /\ resizeTimeout' = st.rt
    /\ NoteSignal(orientListeners)
    /\ orientAt' = [h \in Handles |-> IF h \in orientListeners THEN now ELSE orientAt[h]]
    /\ UNCHANGED <<now, resizeListeners, orientListeners, phase, hasCallback,
                   applyCount, callbackCount,
                   cancelledAtRelease, releasedAgain,
                   fit, solve, props, conv, apply, comp>>

\* A due timer runs its function: applyResponsiveScaling, then the callback.
TimerFire(t) ==
    /\ t \in timers
    /\ now >= t.deadline
    /\ timers' = timers \ {t}
    /\ applyCount' = [applyCount EXCEPT ![t.owner] = @ + 1]
    /\ callbackCount' = [callbackCount EXCEPT ![t.owner] =
                            IF hasCallback[t.owner] THEN @ + 1 ELSE @]
    /\ appliesSinceSignal' = [appliesSinceSignal EXCEPT ![t.owner] = @ + 1]
    /\ lastSignalAt' = [lastSignalAt EXCEPT ![t.owner] = NoTime]
    /\ orientAt' = [orientAt EXCEPT ![t.owner] = NoTime]
    /\ UNCHANGED <<now, resizeTimeout, resizeListeners, orientListeners, phase,
                   hasCallback, burstReset, cancelledAtRelease, signalAfterRelease,
                   releasedAgain,
                   fit, solve, props, conv, apply, comp>>

\* The cleanup function returned by createResponsiveObserver.
CleanupNoClear(h) ==
    /\ phase[h] # "none"
    /\ timers' = timers
    /\ resizeListeners' = resizeListeners \ {h}
    /\ orientListeners' = orientListeners \ {h}
    /\ phase' = [phase EXCEPT ![h] = "released"]
    /\ cancelledAtRelease' = [cancelledAtRelease EXCEPT ![h] =
                                 @ \/ (phase[h] = "active" /\ PendingOf(h) # {})]
    /\ UNCHANGED <<now, resizeTimeout, hasCallback, applyCount, callbackCount,
                   appliesSinceSignal, lastSignalAt, burstReset,
                   orientAt, signalAfterRelease, fit, solve, props, conv, apply, comp>>

CleanupKeepOrient(h) ==
    /\ phase[h] # "none"
    /\ timers' = ClearTimeout(timers, resizeTimeout[h])
    /\ resizeListeners' = resizeListeners \ {h}
    /\ orientListeners' = orientListeners
    /\ phase' = [phase EXCEPT ![h] = "released"]
    /\ cancelledAtRelease' = [cancelledAtRelease EXCEPT ![h] =
                                 @ \/ (phase[h] = "active" /\ PendingOf(h) # {})]
    /\ UNCHANGED <<now, resizeTimeout, hasCallback, applyCount, callbackCount,
                   appliesSinceSignal, lastSignalAt, burstReset,
                   orientAt, signalAfterRelease, fit, solve, props, conv, apply, comp>>

Cleanup(h) ==
    /\ phase[h] # "none"
    /\ timers' = ClearTimeout(timers, resizeTimeout[h])
    /\ resizeListeners' = resizeListeners \ {h}
    /\ orientListeners' = orientListeners \ {h}
    /\ phase' = [phase EXCEPT ![h] = "released"]
    /\ cancelledAtRelease' = [cancelledAtRelease EXCEPT ![h] =
                                 @ \/ (phase[h] = "active" /\ PendingOf(h) # {})]
    /\ UNCHANGED <<now, resizeTimeout, hasCallback, applyCount, callbackCount,
                   appliesSinceSignal, lastSignalAt, burstReset,
                   orientAt, signalAfterRelease, fit, solve, props, conv, apply, comp>>

\* Time passes; the host runs every due timer before the clock moves on.
Tick ==
    /\ now < MaxTime
    /\ \A t \in timers : t.deadline > now
    /\ now' = now + TickMs
    /\ UNCHANGED <<timers, resizeTimeout, resizeListeners, orientListeners, phase,
                   hasCallback, applyCount, callbackCount, appliesSinceSignal,
                   lastSignalAt, burstReset, orientAt,
                   cancelledAtRelease, signalAfterRelease, releasedAgain,
                   fit, solve, props, conv, apply, comp>>

(***************************************************************************)
(* Text fitter: intelligentTextFit                                         *)
(*                                                                         *)
(* Sizes are fixed-point, in thousandths of a pixel; fractions (step,      *)
(* maxReduction) are in percent. One element is fitted, possibly several   *)
(* times in a row; the host's measurements (scrollWidth, scrollHeight      *)
(* against clientWidth, clientHeight) come from a measurement provider.    *)
(***************************************************************************)

MaxAttempts == 50          \* const maxAttempts = 50
DefaultMaxReduction == 70  \* maxReduction = 0.7
DefaultMinFontSize == 12000 \* minFontSize = 12
DefaultStep == 2           \* step = 0.02
MaxFits == 2               \* invocations of intelligentTextFit on the element

Px(n) == n * 1000

\* Inputs of the model.
FontSizes == {Px(12), Px(32), Px(36)}
MinFontSizes == {Px(10), DefaultMinFontSize, Px(30)}
MaxReductions == {30, DefaultMaxReduction}
Steps == {0, DefaultStep, 100, 150}
\* Measurement providers: "arbitrary" answers every measurement as it likes;
\* a proportional one reports a single-line overflow exactly when the font
\* size is above `fitSize`, and a wrapped box that fits on both axes exactly
\* when the font size is at most `wrapSize`.
Providers ==
    {[kind |-> "arbitrary", fitSize |-> 0, wrapSize |-> 0]} \cup
    {[kind |-> "proportional", fitSize |-> f, wrapSize |-> w] :
        f \in {Px(11), Px(31), Px(34)}, w \in {Px(11), Px(40)}}

\* element.scrollWidth > containerWidth, as the provider may report it.
WidthOverflows(f) ==
    IF f.provider.kind = "arbitrary" THEN BOOLEAN
    ELSE IF f.whiteSpace = "normal" THEN {FALSE}
    ELSE {f.fontSize > f.provider.fitSize}

\* element.scrollHeight > containerHeight, as the provider may report it.
HeightOverflows(f) ==
    IF f.provider.kind = "arbitrary" THEN BOOLEAN
    ELSE IF f.whiteSpace = "normal" THEN {f.fontSize > f.provider.wrapSize}
    ELSE {FALSE}

NoResult == [method |-> "none", fontSize |-> 0,
             reduction |-> [isNaN |-> FALSE, permille |-> 0], fits |-> FALSE,
             attempts |-> 0]

FitInit ==
    \E fs \in FontSizes, mn \in MinFontSizes, mr \in MaxReductions, st \in Steps,
       pw \in BOOLEAN, sp \in BOOLEAN, ws \in BOOLEAN, pr \in Providers :
        /\ sp => ws     \* a space character is whitespace
        /\ fit = [pc |-> "idle",
                  \* options
                  maxReduction |-> mr, minFontSize |-> mn, preferWordWrap |-> pw,
                  step |-> st,
                  \* the element: its text contains ' ' / contains whitespace of
                  \* any kind (a tab or a line break also counts)
                  hasSpace |-> sp, hasWhitespace |-> ws,
                  fontSize |-> fs, whiteSpace |-> "initial",
                  datasetOriginalFontSize |-> 0,
                  provider |-> pr,
                  \* locals of the invocation in progress
                  originalFontSize |-> 0, currentFontSize |-> 0, minAllowedSize |-> 0,
                  attempts |-> 0,
                  fits |-> FALSE,   \* const fits = element.scrollWidth <= containerWidth
                  \* the invocation took the word-wrap branch (line 583)
                  triedWrap |-> FALSE,
                  \* what the last measurements of the invocation reported
                  sawWidthFit |-> FALSE, sawHeightFit |-> FALSE,
                  fitCount |-> 0,
                  result |-> NoResult]

\* const minAllowedSize = Math.max(minFontSize, originalFontSize * maxReduction)
minAllowedSize(originalFontSize, minFontSize, maxReduction) ==
    Max(minFontSize, (originalFontSize * maxReduction) \div 100)

\* currentFontSize * (1 - step)
ReduceOvershoot(currentFontSize, step) ==
    (currentFontSize * (100 - step)) \div 100 + Px(1)
Reduce(currentFontSize, step) == (currentFontSize * (100 - step)) \div 100

\* element.style.fontSize = `${v}px`: the host drops a negative length.
StyleFontSize(old, v) == IF v >= 0 THEN v ELSE old

\* The while condition of the reduction loop, given what scrollWidth reported.
LoopGuardUnbounded(f, overflow) ==
    overflow /\ f.currentFontSize > f.minAllowedSize
LoopGuard(f, overflow) ==
    overflow /\ f.currentFontSize > f.minAllowedSize /\ f.attempts < MaxAttempts

\* method: fits ? 'font-reduction' : 'hybrid'
Method(fits) == IF fits THEN "font-reduction" ELSE "hybrid"

\* reduction = (originalFontSize - currentFontSize) / originalFontSize, in 1/1000;
\* 0 / 0 is NaN.
Reduction(originalFontSize, currentFontSize) ==
    IF originalFontSize = 0
    THEN [isNaN |-> TRUE, permille |-> 0]
    ELSE [isNaN |-> FALSE,
          permille |-> ((originalFontSize - currentFontSize) * 1000) \div originalFontSize]

\* if (preferWordWrap && originalText.includes(' '))
TryWordWrapAlways(f) == TRUE
TryWordWrap(f) == f.preferWordWrap /\ f.hasSpace

\* element.style.whiteSpace = 'normal'
Wrapped(f) == [f EXCEPT !.whiteSpace = "normal"]

\* intelligentTextFit up to the reduction loop: reads the computed font size,
\* records it in the dataset once, tries word wrapping, else prepares the loop.
\* ow and oh are what scrollWidth and scrollHeight report once wrapping is on.
StartFit(f, ow, oh) ==
    LET orig == f.fontSize
        ds   == IF f.datasetOriginalFontSize = 0 THEN orig
                ELSE f.datasetOriginalFontSize
    IN  IF TryWordWrap(f) /\ ~ow /\ ~oh
        THEN [Wrapped(f) EXCEPT
                !.pc = "done",
                !.datasetOriginalFontSize = ds,
                !.originalFontSize = orig,
                !.currentFontSize = orig,
                !.minAllowedSize = 0,
                !.attempts = 0,
                !.fits = FALSE,
                !.triedWrap = TRUE,
                !.sawWidthFit = TRUE, !.sawHeightFit = TRUE,
                !.fitCount = @ + 1,
                !.result = [method |-> "word-wrap", fontSize |-> orig,
                            reduction |-> [isNaN |-> FALSE, permille |-> 0],
                            fits |-> TRUE,
                            attempts |-> 0]]
        ELSE [f EXCEPT
                !.pc = "loop",
                !.whiteSpace = "nowrap",
                !.datasetOriginalFontSize = ds,
                !.originalFontSize = orig,
                !.currentFontSize = orig,
                !.minAllowedSize =
                    minAllowedSize(orig, f.minFontSize, f.maxReduction),
                !.attempts = 0,
                !.fits = FALSE,
                !.triedWrap = TryWordWrap(f),
                !.sawWidthFit = FALSE, !.sawHeightFit = FALSE,
                !.fitCount = @ + 1,
                !.result = NoResult]

\* The body of the while loop.
StepFit(f) ==
    LET cur == Reduce(f.currentFontSize, f.step)
    IN  [f EXCEPT
           !.currentFontSize = cur,
           !.fontSize = StyleFontSize(@, cur),
           !.attempts = @ + 1]

\* if (!fits && preferWordWrap) element.style.whiteSpace = 'normal'
AfterLoop(f, fits) == IF ~fits /\ f.preferWordWrap THEN Wrapped(f) ELSE f

\* The return statement after the loop; `after` is AfterLoop of the state the
\* loop left, ow3 and oh3 are the measurements read by the return statement.
ExitFit(after, fits, ow3, oh3) ==
    [after EXCEPT
       !.pc = "done",
       !.fits = fits,
       !.sawWidthFit = ~ow3,
       !.sawHeightFit = ~oh3,
       !.result = [method |-> Method(fits),
                   fontSize |-> after.currentFontSize,
                   reduction |-> Reduction(after.originalFontSize,
                                           after.currentFontSize),
                   fits |-> ~ow3 /\ ~oh3,
                   attempts |-> after.attempts]]

FitStart ==
    /\ fit.pc \in {"idle", "done"}
    /\ fit.fitCount < MaxFits
    /\ \E ow \in WidthOverflows(Wrapped(fit)), oh \in HeightOverflows(Wrapped(fit)) :
          fit' = StartFit(fit, ow, oh)
    /\ UNCHANGED <<obsVars, solve, props, conv, apply, comp>>

\* One iteration of the while loop: the condition held.
LoopStep ==
    /\ fit.pc = "loop"
    /\ \E ow \in WidthOverflows(fit) :
         /\ LoopGuard(fit, ow)
         /\ fit' = StepFit(fit)
    /\ UNCHANGED <<obsVars, solve, props, conv, apply, comp>>

\* The loop condition failed: the rest of intelligentTextFit, up to its return.
LoopExit ==
    /\ fit.pc = "loop"
    /\ \E ow \in WidthOverflows(fit) :
         /\ ~LoopGuard(fit, ow)
         /\ \E ow2 \in WidthOverflows(fit) :
              LET fits == ~ow2
                  after == AfterLoop(fit, fits)
              IN  \E ow3 \in WidthOverflows(after), oh3 \in HeightOverflows(after) :
                    fit' = ExitFit(after, fits, ow3, oh3)
    /\ UNCHANGED <<obsVars, solve, props, conv, apply, comp>>

FitNext == FitStart \/ LoopStep \/ LoopExit

(***************************************************************************)
(* Dimension solver: getOptimalDimensions                                  *)
(*                                                                         *)
(* Viewport sizes are integers; every derived quantity is an exact         *)
(* rational [n, d] with d > 0, kept in lowest terms.                       *)
(***************************************************************************)

BaseWidth == 1920          \* BASE_DIMENSIONS.width
BaseHeight == 1080         \* BASE_DIMENSIONS.height
AspectNum == 16            \* BASE_DIMENSIONS.aspectRatio: 16/9
AspectDen == 9
MaxViewport == 20          \* small viewports 0..MaxViewport are enumerated

Abs(a) == IF a < 0 THEN 0 - a ELSE a

RECURSIVE GCD(_, _)
GCD(a, b) == IF b = 0 THEN a ELSE GCD(b, a % b)

Rat(n, d) ==
    LET g == GCD(Abs(n), d)
    IN  [n |-> n \div g, d |-> d \div g]

RatMul(x, n, d) == Rat(x.n * n, x.d * d)         \* x * (n/d)
RatSubInt(i, x) == Rat(i * x.d - x.n, x.d)       \* i - x
RatLeq(x, y) == x.n * y.d <= y.n * x.d
RatMin(x, y) == IF RatLeq(x, y) THEN x ELSE y
RatInt(i) == [n |-> i, d |-> 1]

\* Viewports of the model: the small ones, and the reference sizes.
ViewportSizes == (0..MaxViewport) \cup {BaseHeight, BaseWidth}
Orientations == {"null", "landscape", "portrait"}

\* viewportWidth / viewportHeight > 1 in IEEE arithmetic: x/0 is Infinity for
\* x > 0 and NaN for x = 0, and every comparison with NaN is false.
isLandscapeOrSquare(vw, vh) == IF vh = 0 THEN vw > 0 ELSE vw >= vh
isLandscape(vw, vh) == IF vh = 0 THEN vw > 0 ELSE vw > vh

\* viewportWidth / viewportHeight >= n/d in IEEE arithmetic.
AspectGeq(vw, vh, n, d) == IF vh = 0 THEN vw > 0 ELSE vw * d >= n * vh

\* Math.min(targetWidth / BASE.width, targetHeight / BASE.height)
Scale(targetWidth, targetHeight) ==
    RatMin(RatMul(targetWidth, 1, BaseWidth), RatMul(targetHeight, 1, BaseHeight))

\* The target rectangle of the landscape branch.
LandscapeTargetSwapped(vw, vh) ==
    IF AspectGeq(vw, vh, AspectNum, AspectDen)
    THEN [width |-> RatInt(vw), height |-> RatMul(RatInt(vw), AspectDen, AspectNum)]
    ELSE [width |-> RatMul(RatInt(vh), AspectNum, AspectDen), height |-> RatInt(vh)]
LandscapeTarget(vw, vh) ==
    IF AspectGeq(vw, vh, AspectNum, AspectDen)
    THEN [width |-> RatMul(RatInt(vh), AspectNum, AspectDen), height |-> RatInt(vh)]
    ELSE [width |-> RatInt(vw), height |-> RatMul(RatInt(vw), AspectDen, AspectNum)]

\* The target rectangle of the portrait branch (base dimensions rotated).
PortraitTarget(vw, vh) ==
    IF AspectGeq(vw, vh, BaseHeight, BaseWidth)
    THEN [width |-> RatMul(RatInt(vh), BaseHeight, BaseWidth), height |-> RatInt(vh)]
    ELSE [width |-> RatInt(vw), height |-> RatMul(RatInt(vw), BaseWidth, BaseHeight)]

getOptimalDimensions(vw, vh, forceOrientation) ==
    LET landscape == \/ forceOrientation = "landscape"
                     \/ (forceOrientation = "null" /\ isLandscape(vw, vh))
        orientation == IF landscape THEN "landscape" ELSE "portrait"
        target == IF landscape THEN LandscapeTarget(vw, vh) ELSE PortraitTarget(vw, vh)
    IN  [kind |-> "dimensions",
         width |-> target.width,
         height |-> target.height,
         scale |-> Scale(target.width, target.height),
         orientation |-> orientation,
         offsetX |-> RatMul(RatSubInt(vw, target.width), 1, 2),
         offsetY |-> RatMul(RatSubInt(vh, target.height), 1, 2)]

NoDimensions == [kind |-> "none"]

SolveInit ==
    \E vw \in ViewportSizes, vh \in ViewportSizes, fo \in Orientations :
        solve = [pc |-> "input", viewportWidth |-> vw, viewportHeight |-> vh,
                 forceOrientation |-> fo, result |-> NoDimensions]

\* The caller applies getOptimalDimensions to its viewport.
Solve ==
    /\ solve.pc = "input"
    /\ solve' = [solve EXCEPT
                   !.pc = "solved",
                   !.result = getOptimalDimensions(solve.viewportWidth,
                                                   solve.viewportHeight,
                                                   solve.forceOrientation)]
    /\ UNCHANGED <<obsVars, fit, props, conv, apply, comp>>

SolveNext == Solve

(***************************************************************************)
(* Custom properties: responsiveFontSize, pixelsToViewport and             *)
(* generateScaleProperties                                                 *)
(*                                                                         *)
(* A CSS clamp(MIN px, VAL unit, MAX px) is the record                     *)
(* [min, val, unit, max] with min and max in tenths of a pixel and val in  *)
(* hundredths of the viewport unit; multipliers are in tenths.             *)
(***************************************************************************)

\* TYPOGRAPHY_SCALE, vw in tenths.
TYPOGRAPHY_SCALE ==
    [xs  |-> [vw |-> 15, min |-> 12, max |-> 18],
     sm  |-> [vw |-> 20, min |-> 14, max |-> 24],
     md  |-> [vw |-> 30, min |-> 18, max |-> 36],
     lg  |-> [vw |-> 40, min |-> 24, max |-> 48],
     xl  |-> [vw |-> 50, min |-> 32, max |-> 64],
     xxl |-> [vw |-> 60, min |-> 40, max |-> 80]]

ScaleKeys == DOMAIN TYPOGRAPHY_SCALE     \* Object.keys(TYPOGRAPHY_SCALE)
ScaleArgs == ScaleKeys \cup {"huge"}     \* "huge" is not a key of the table
Multipliers == {0, 5, 10, 15}            \* 0, 0.5, 1 (the default), 1.5

SpacingBase == 8           \* const spacingBase = 8
SpacingSteps == 10         \* for (let i = 1; i <= 10; i++)
MinSpacingPx == 8          \* Math.max(pixels * 0.5, 8)

Min(a, b) == IF a <= b THEN a ELSE b

\* Number.prototype.toFixed(2) of num/den >= 0, in hundredths: the nearest
\* hundredth, the larger one on a tie.
ToFixed2(num, den) == (2 * num * 100 + den) \div (2 * den)

\* responsiveFontSize(scale, multiplier)
responsiveFontSizeNoFallback(scale, multiplier) ==
    LET config == IF scale \in ScaleKeys THEN TYPOGRAPHY_SCALE[scale]
                  ELSE TYPOGRAPHY_SCALE.xxl
    IN  [min |-> config.min * multiplier, val |-> config.vw * multiplier,
         unit |-> "vw", max |-> config.max * multiplier]
responsiveFontSize(scale, multiplier) ==
    LET config == IF scale \in ScaleKeys THEN TYPOGRAPHY_SCALE[scale]
                  ELSE TYPOGRAPHY_SCALE.md
    IN  [min |-> config.min * multiplier, val |-> config.vw * multiplier,
         unit |-> "vw", max |-> config.max * multiplier]

\* pixelsToViewport(pixels, unit, baseViewport); baseViewport 0 stands for
\* the falsy values (null, 0) that select the default base.
pixelsToViewportDocumented(pixels, unit, baseViewport) ==
    LET base == IF baseViewport # 0 THEN baseViewport
                ELSE IF unit = "vh" THEN BaseHeight ELSE BaseWidth
    IN  [min |-> pixels * 5, val |-> ToFixed2(pixels * 100, base),
         unit |-> unit, max |-> pixels * 10]
pixelsToViewport(pixels, unit, baseViewport) ==
    LET base == IF baseViewport # 0 THEN baseViewport
                ELSE IF unit = "vh" THEN BaseHeight ELSE BaseWidth
    IN  [min |-> Max(pixels * 5, MinSpacingPx * 10),
         val |-> ToFixed2(pixels * 100, base),
         unit |-> unit,
         max |-> pixels * 20]

\* generateScaleProperties(dimensions, options)
generateScaleProperties(dimensions, options) ==
    [display |-> [width |-> dimensions.width, height |-> dimensions.height,
                  scale |-> dimensions.scale,
                  offsetX |-> dimensions.offsetX, offsetY |-> dimensions.offsetY,
                  orientation |-> dimensions.orientation],
     font    |-> [k \in IF options.enableTextScaling THEN ScaleKeys ELSE {} |->
                     responsiveFontSize(k, options.textScaleMultiplier)],
     spacing |-> [i \in IF options.enableSpacingScale THEN 1..SpacingSteps ELSE {} |->
                     pixelsToViewport(SpacingBase * i, "vmin", 0)]]

\* What the host computes for clamp(MIN, VAL, MAX): max(MIN, min(VAL, MAX)).
Clamp(lo, v, hi) == Max(lo, Min(v, hi))

\* The length a viewport unit is a percentage of.
UnitBase(unit, vw, vh) ==
    CASE unit = "vw"   -> vw
      [] unit = "vh"   -> vh
      [] unit = "vmin" -> Min(vw, vh)
      [] unit = "vmax" -> Max(vw, vh)

\* The used value of a clamp record on a viewport, in 1/10000 px.
Realized(t, vw, vh) == Clamp(t.min * 1000, t.val * UnitBase(t.unit, vw, vh), t.max * 1000)

\* Viewports the properties are derived and realized on: none, a phone, the
\* rotated and the plain reference design, and a wall a hundred times as large.
ScaleViewports ==
    {<<0, 0>>, <<320, 568>>, <<BaseHeight, BaseWidth>>, <<BaseWidth, BaseHeight>>,
     <<BaseWidth * 100, BaseHeight * 100>>}

MaxPixels == 12            \* pixel values 1..MaxPixels are converted directly
ViewportUnits == {"vw", "vh", "vmin"}

NoProperties == [display |-> <<>>, font |-> <<>>, spacing |-> <<>>]
NoClamp == [min |-> 0, val |-> 0, unit |-> "none", max |-> 0]

PropsInit ==
    \E v \in ScaleViewports, m \in Multipliers, et \in BOOLEAN, es \in BOOLEAN :
        props = [pc |-> "input",
                 viewportWidth |-> v[1], viewportHeight |-> v[2],
                 options |-> [enableTextScaling |-> et, textScaleMultiplier |-> m,
                              enableSpacingScale |-> es],
                 properties |-> NoProperties,
                 fontArg |-> "none", fontValue |-> NoClamp,
                 pixelsArg |-> 0, pixelsValue |-> NoClamp]

\* applyResponsiveScaling's first steps: the dimensions of the viewport and
\* the custom properties derived from them.
DeriveProperties ==
    /\ props.pc = "input"
    /\ props' = [props EXCEPT
                   !.pc = "derived",
                   !.properties = generateScaleProperties(
                       getOptimalDimensions(props.viewportWidth, props.viewportHeight,
                                            "null"),
                       props.options)]
    /\ UNCHANGED <<obsVars, fit, solve, conv, apply, comp>>

\* A direct call responsiveFontSize(scale, multiplier) of the exported function.
CallResponsiveFontSize ==
    /\ props.fontArg = "none"
    /\ \E a \in ScaleArgs :
          props' = [props EXCEPT
                      !.fontArg = a,
                      !.fontValue = responsiveFontSize(a, props.options.textScaleMultiplier)]
    /\ UNCHANGED <<obsVars, fit, solve, conv, apply, comp>>

\* A direct call pixelsToViewport(pixels, unit) of the exported function, with
\* the default base.
CallPixelsToViewport ==
    /\ props.pc # "off"
    /\ props.pixelsArg = 0
    /\ \E px \in 1..MaxPixels, unit \in ViewportUnits :
          props' = [props EXCEPT
                      !.pixelsArg = px,
                      !.pixelsValue = pixelsToViewport(px, unit, 0)]
    /\ UNCHANGED <<obsVars, fit, solve, conv, apply, comp>>

ScaleNext == DeriveProperties \/ CallResponsiveFontSize \/ CallPixelsToViewport

(***************************************************************************)
(* Pixel font sizes turned into scale steps: convertToResponsiveStyles and *)
(* the four places of the editor integration that do the same.             *)
(*                                                                         *)
(* A font-size style value is [present, num, hasPx]: whether the style is  *)
(* set (a non-empty string), the number the string starts with in tenths   *)
(* (NaN when it starts with none) and whether the string contains "px".    *)
(***************************************************************************)

MaxFontPx == 70            \* the largest pixel font size converted
NaN == 0 - 1               \* parseFloat of a string that starts with no number

\* Font sizes in pixels, "16px", "16.5px", ...
PixelValues == {[present |-> TRUE, num |-> 5 * n, hasPx |-> TRUE] : n \in 0..(2 * MaxFontPx)}
\* "2em"; "calc(1vw + 10px)"; no font-size at all.
OtherValues == {[present |-> TRUE, num |-> 20, hasPx |-> FALSE],
                [present |-> TRUE, num |-> NaN, hasPx |-> TRUE],
                [present |-> FALSE, num |-> NaN, hasPx |-> FALSE]}

Truthy(v) == v.present
parseFloat(v) == v.num
\* pixels <= k for a number of pixels k; false when pixels is NaN.
LeqJS(pixels, k) == pixels # NaN /\ pixels <= k * 10

Kept == [kind |-> "kept", scale |-> "none", fallback |-> FALSE]

\* convertToResponsiveStyles(styles): the font-size of the returned styles.
convertToResponsiveStylesStrict(c) ==
    IF Truthy(c.fontSize) /\ parseFloat(c.fontSize) # NaN
    THEN LET pixels == parseFloat(c.fontSize)
             scale  == IF pixels < 160 THEN "xs"
                       ELSE IF LeqJS(pixels, 20) THEN "sm"
                       ELSE IF LeqJS(pixels, 32) THEN "md"
                       ELSE IF LeqJS(pixels, 48) THEN "lg"
                       ELSE IF LeqJS(pixels, 64) THEN "xl"
                       ELSE "xxl"
         IN  [kind |-> "var", scale |-> scale, fallback |-> TRUE]
    ELSE Kept
convertToResponsiveStyles(c) ==
    IF Truthy(c.fontSize) /\ parseFloat(c.fontSize) # NaN
    THEN LET pixels == parseFloat(c.fontSize)
             scale  == IF LeqJS(pixels, 16) THEN "xs"
                       ELSE IF LeqJS(pixels, 20) THEN "sm"
                       ELSE IF LeqJS(pixels, 32) THEN "md"
                       ELSE IF LeqJS(pixels, 48) THEN "lg"
                       ELSE IF LeqJS(pixels, 64) THEN "xl"
                       ELSE "xxl"
         IN  [kind |-> "var", scale |-> scale, fallback |-> TRUE]
    ELSE Kept

\* The 'optimize-text-sizing' command, for one component.
optimizeTextSizing(c) ==
    IF c.isText
          /\ Truthy(c.fontSize) /\ c.fontSize.hasPx
    THEN LET pixels == parseFloat(c.fontSize)
             scale  == IF LeqJS(pixels, 16) THEN "xs"
                       ELSE IF LeqJS(pixels, 20) THEN "sm"
                       ELSE IF LeqJS(pixels, 32) THEN "md"
                       ELSE IF LeqJS(pixels, 48) THEN "lg"
                       ELSE IF LeqJS(pixels, 64) THEN "xl"
                       ELSE "xxl"
         IN  [kind |-> "var", scale |-> scale, fallback |-> FALSE]
    ELSE Kept

\* Auto-conversion in enhanceEditorWithResponsive, for one component.
autoConversion(c) ==
    IF c.isText
          /\ Truthy(c.fontSize) /\ c.fontSize.hasPx
    THEN LET pixels == parseFloat(c.fontSize)
             scale  == IF LeqJS(pixels, 16) THEN "xs"
                       ELSE IF LeqJS(pixels, 20) THEN "sm"
                       ELSE IF LeqJS(pixels, 32) THEN "md"
                       ELSE IF LeqJS(pixels, 48) THEN "lg"
                       ELSE IF LeqJS(pixels, 64) THEN "xl"
                       ELSE "xxl"
         IN  [kind |-> "var", scale |-> scale, fallback |-> FALSE]
    ELSE Kept

\* The 'component:add' handler.
componentAdd(c) ==
    IF c.isText /\ ~c.hasTextFit
          /\ Truthy(c.fontSize) /\ c.fontSize.hasPx
    THEN LET pixels == parseFloat(c.fontSize)
             scale  == IF LeqJS(pixels, 16) THEN "xs"
                       ELSE IF LeqJS(pixels, 20) THEN "sm"
                       ELSE IF LeqJS(pixels, 32) THEN "md"
                       ELSE IF LeqJS(pixels, 48) THEN "lg"
                       ELSE IF LeqJS(pixels, 64) THEN "xl"
                       ELSE "xxl"
         IN  [kind |-> "var", scale |-> scale, fallback |-> FALSE]
    ELSE Kept

\* optimizeAllText, for one component.
optimizeAllText(c) ==
    IF c.isText
          /\ Truthy(c.fontSize) /\ c.fontSize.hasPx
    THEN LET pixels == parseFloat(c.fontSize)
             scale  == IF LeqJS(pixels, 16) THEN "xs"
                       ELSE IF LeqJS(pixels, 20) THEN "sm"
                       ELSE IF LeqJS(pixels, 32) THEN "md"
                       ELSE IF LeqJS(pixels, 48) THEN "lg"
                       ELSE IF LeqJS(pixels, 64) THEN "xl"
                       ELSE "xxl"
         IN  [kind |-> "var", scale |-> scale, fallback |-> FALSE]
    ELSE Kept

Sites == {"convertToResponsiveStyles", "optimizeTextSizing", "autoConversion",
          "componentAdd", "optimizeAllText"}

Pending == [kind |-> "pending", scale |-> "none", fallback |-> FALSE]

\* One component; every place works on its own copy of it.
ConvInit ==
    \E v \in PixelValues \cup OtherValues, tx \in BOOLEAN, tf \in BOOLEAN :
        conv = [pc |-> "input", fontSize |-> v, isText |-> tx, hasTextFit |-> tf,
                out |-> [site \in Sites |-> Pending]]

RunSite(site, style) ==
    /\ conv.pc = "input"
    /\ conv.out[site] = Pending
    /\ conv' = [conv EXCEPT !.out[site] = style]
    /\ UNCHANGED <<obsVars, fit, solve, props, apply, comp>>

ConvertToResponsiveStyles == RunSite("convertToResponsiveStyles", convertToResponsiveStyles(conv))
OptimizeTextSizing == RunSite("optimizeTextSizing", optimizeTextSizing(conv))
AutoConversion == RunSite("autoConversion", autoConversion(conv))
ComponentAdd == RunSite("componentAdd", componentAdd(conv))
OptimizeAllText == RunSite("optimizeAllText", optimizeAllText(conv))

ConvNext ==
    \/ ConvertToResponsiveStyles
    \/ OptimizeTextSizing
    \/ AutoConversion
    \/ ComponentAdd
    \/ OptimizeAllText

(***************************************************************************)
(* applyResponsiveScaling over the text elements of a container            *)
(*                                                                         *)
(* The container holds up to MaxChildren elements matched by the text      *)
(* selector; each has a data-text-fit attribute, a text, a font size and   *)
(* a box that answers measurements as a proportional provider does.        *)
(***************************************************************************)

MaxChildren == 2           \* text elements in the container

TextFitModes == {"auto", "shrink", "wrap", "ellipsis", "none"}

\* The boxes an element may have, for a 36px text: one the single line fits,
\* one it fits after a few reductions, one only the wrapped text fits, and
\* one nothing fits.
Boxes ==
    {[kind |-> "proportional", fitSize |-> Px(40), wrapSize |-> Px(40)],
     [kind |-> "proportional", fitSize |-> Px(34), wrapSize |-> Px(11)],
     [kind |-> "proportional", fitSize |-> Px(11), wrapSize |-> Px(40)],
     [kind |-> "proportional", fitSize |-> Px(11), wrapSize |-> Px(11)]}

NoOutcome == [method |-> "not called"]

Children ==
    {[textFit |-> tf, blank |-> bl,
      \* a single word in the box that a few reductions make it fit
      hasSpace |-> bx.fitSize # Px(34),
      fontSize |-> Px(36), whiteSpace |-> "initial", provider |-> bx,
      entryFontSize |-> Px(36), fitCalls |-> 0, outcome |-> NoOutcome] :
        tf \in TextFitModes, bl \in BOOLEAN, bx \in Boxes}

\* Containers: sequences of at most MaxChildren elements. Of the blank
\* elements one representative is enough.
RECURSIVE Containers(_)
Containers(n) ==
    IF n = 0 THEN {<<>>}
    ELSE LET shorter == Containers(n - 1)
         IN  shorter \cup
             {Append(c, e) : c \in {x \in shorter : Len(x) = n - 1},
                             e \in {k \in Children :
                                       k.blank => (k.textFit = "auto"
                                                   /\ k.provider.fitSize = Px(40))}}

\* The textFitOptions callers pass: none (the defaults) and the ones of the
\* runner display's observer.
TextFitOptionSets ==
    {[maxReduction |-> DefaultMaxReduction, minFontSize |-> DefaultMinFontSize,
      preferWordWrap |-> TRUE, step |-> DefaultStep],
     [maxReduction |-> 40, minFontSize |-> Px(10),
      preferWordWrap |-> TRUE, step |-> DefaultStep]}

\* The measurement a deterministic provider reports.
Measure(answers) == CHOOSE b \in answers : TRUE

\* The while loop of intelligentTextFit, run to its end.
RECURSIVE RunLoop(_)
RunLoop(f) ==
    IF LoopGuard(f, Measure(WidthOverflows(f))) THEN RunLoop(StepFit(f)) ELSE f

\* intelligentTextFit(element, options) from call to return, on an element
\* and options given as a fitter state f.
intelligentTextFit(f) ==
    LET s == StartFit(f, Measure(WidthOverflows(Wrapped(f))),
                         Measure(HeightOverflows(Wrapped(f))))
    IN  IF s.pc = "done" THEN s
        ELSE LET l     == RunLoop(s)
                 fits  == ~Measure(WidthOverflows(l))
                 after == AfterLoop(l, fits)
             IN  ExitFit(after, fits, Measure(WidthOverflows(after)),
                                      Measure(HeightOverflows(after)))

\* The fitter state of a call intelligentTextFit(element, textFitOptions).
FitCall(el, o) ==
    [pc |-> "idle",
     maxReduction |-> o.maxReduction, minFontSize |-> o.minFontSize,
     preferWordWrap |-> o.preferWordWrap, step |-> o.step,
     hasSpace |-> el.hasSpace, hasWhitespace |-> el.hasSpace,
     fontSize |-> el.fontSize, whiteSpace |-> el.whiteSpace,
     datasetOriginalFontSize |-> 0, provider |-> el.provider,
     originalFontSize |-> 0, currentFontSize |-> 0, minAllowedSize |-> 0,
     attempts |-> 0, fits |-> FALSE, triedWrap |-> FALSE,
     sawWidthFit |-> FALSE, sawHeightFit |-> FALSE,
     fitCount |-> 0, result |-> NoResult]

\* textElements.forEach: an element with a non-blank text is fitted with the
\* container-wide textFitOptions.
FitElement(el, o) ==
    IF el.blank THEN el
    ELSE LET done == intelligentTextFit(FitCall(el, o))
         IN  [el EXCEPT !.fontSize = done.fontSize, !.whiteSpace = done.whiteSpace,
                        !.fitCalls = @ + 1, !.outcome = done.result]

\* translate(offsetX px, offsetY px) scale(scale)
Transform(dimensions) ==
    [translateX |-> dimensions.offsetX, translateY |-> dimensions.offsetY,
     scale |-> dimensions.scale]

Undefined == [kind |-> "undefined"]
NoStyle == [properties |-> NoProperties, transform |-> "none"]

\* generateScaleProperties reads its own options from the ones of apply;
\* callers set none of them, so the defaults hold.
DefaultScaleOptions ==
    [enableTextScaling |-> TRUE, textScaleMultiplier |-> 10, enableSpacingScale |-> TRUE]

\* applyResponsiveScaling(container, options) on the state a = [container,
\* containerStyle, options]: the container afterwards and the value returned.
applyResponsiveScalingStopAtMisfit(a) ==
    IF ~a.hasContainer
    THEN [children |-> a.children, containerStyle |-> a.containerStyle,
          returned |-> Undefined]
    ELSE LET dimensions == getOptimalDimensions(a.options.viewportWidth,
                                                a.options.viewportHeight,
                                                a.options.forceOrientation)
             properties == generateScaleProperties(dimensions, DefaultScaleOptions)
             transform  == Transform(dimensions)
             fitted(i)  == FitElement(a.children[i], a.options.textFitOptions)
             misfit(i)  == fitted(i).fitCalls > 0 /\ ~fitted(i).outcome.fits
         IN  [children |->
                  IF a.options.enableSmartTextFit
                  THEN [i \in DOMAIN a.children |->
                           IF \E j \in 1..(i - 1) : misfit(j)
                           THEN a.children[i] ELSE fitted(i)]
                  ELSE a.children,
              containerStyle |-> [properties |-> properties, transform |-> transform],
              returned |-> [dimensions |-> dimensions, properties |-> properties,
                            transform |-> transform]]
applyResponsiveScaling(a) ==
    IF ~a.hasContainer
    THEN [children |-> a.children, containerStyle |-> a.containerStyle,
          returned |-> Undefined]
    ELSE LET dimensions == getOptimalDimensions(a.options.viewportWidth,
                                                a.options.viewportHeight,
                                                a.options.forceOrientation)
             properties == generateScaleProperties(dimensions, DefaultScaleOptions)
             transform  == Transform(dimensions)
         IN  [children |->
                  IF a.options.enableSmartTextFit
                  THEN [i \in DOMAIN a.children |->
                           FitElement(a.children[i], a.options.textFitOptions)]
                  ELSE a.children,
              containerStyle |-> [properties |-> properties, transform |-> transform],
              returned |-> [dimensions |-> dimensions, properties |-> properties,
                            transform |-> transform]]

ApplyInit ==
    \E c \in Containers(MaxChildren), hc \in BOOLEAN, en \in BOOLEAN,
       o \in TextFitOptionSets, v \in {<<BaseWidth, BaseHeight>>, <<320, 568>>} :
        apply = [pc |-> "input",
                 hasContainer |-> hc,
                 children |-> c,
                 containerStyle |-> NoStyle,
                 options |-> [viewportWidth |-> v[1], viewportHeight |-> v[2],
                              forceOrientation |-> "null",
                              enableSmartTextFit |-> en,
                              textFitOptions |-> o],
                 returned |-> Undefined]

\* A caller runs applyResponsiveScaling(container, options).
Apply ==
    /\ apply.pc = "input"
    /\ LET r == applyResponsiveScaling(apply)
       IN  apply' = [apply EXCEPT !.pc = "applied",
                                  !.children = r.children,
                                  !.containerStyle = r.containerStyle,
                                  !.returned = r.returned]
    /\ UNCHANGED <<obsVars, fit, solve, props, conv, comp>>

ApplyNext == Apply

(***************************************************************************)
(* Display components: RunnerDisplayEnhanced and ResponsiveTemplateViewer  *)
(*                                                                         *)
(* Each component keeps the cleanup function of its observer in            *)
(* responsiveCleanupRef and creates the observer in an effect. Observers   *)
(* are numbered in the order of their creation; an observer is its window  *)
(* listeners, its debounce timer and the options it was created with. The  *)
(* debounce delay is left out: a pending timer fires at some later step.   *)
(***************************************************************************)
MaxObservers == 3          \* observers one component instance creates

CompKinds == {"RunnerDisplayEnhanced", "ResponsiveTemplateViewer"}
CompViewports == {<<BaseWidth, BaseHeight>>, <<BaseHeight, BaseWidth>>, <<320, 568>>}
NoRef == 0                 \* responsiveCleanupRef.current = null
NoViewport == <<>>         \* options without viewportWidth / viewportHeight
NoObserver == [listening |-> FALSE, pending |-> FALSE,
               viewport |-> NoViewport, forceOrientation |-> "null"]

\* Observers that still listen to the window or have a timer pending.
ActiveObservers(c) ==
    {id \in DOMAIN c.observers : c.observers[id].listening \/ c.observers[id].pending}

\* The cleanup function createResponsiveObserver returned for observer id.
ReleaseObserverKeepListeners(observers, id) ==
    [observers EXCEPT ![id].pending = FALSE]
ReleaseObserver(observers, id) ==
    [observers EXCEPT ![id].pending = FALSE, ![id].listening = FALSE]

\* if (responsiveCleanupRef.current) responsiveCleanupRef.current();
CallCleanupRef(c) ==
    IF c.cleanupRef # NoRef
    THEN [c EXCEPT !.observers = ReleaseObserver(c.observers, c.cleanupRef)]
    ELSE c

\* The options the component hands to createResponsiveObserver: the viewer
\* reads the size of its container when the effect runs, the runner display
\* passes no viewport.
ObserverOptions(c) ==
    IF c.kind = "ResponsiveTemplateViewer"
    THEN [viewport |-> c.viewport, forceOrientation |-> c.forceOrientation]
    ELSE [viewport |-> NoViewport, forceOrientation |-> "null"]

\* The body of the observer effect; createResponsiveObserver attaches the
\* listeners and arms the timer of the initial application.
ObserverEffect(c) ==
    IF ~c.ready
    THEN [c EXCEPT !.hasCleanup = FALSE]
    ELSE LET c1 == CallCleanupRef(c)
             id == c1.created + 1
             o  == ObserverOptions(c1)
         IN  [c1 EXCEPT !.created = id,
                        !.observers[id] = [listening |-> TRUE, pending |-> TRUE,
                                           viewport |-> o.viewport,
                                           forceOrientation |-> o.forceOrientation],
                        !.cleanupRef = id,
                        !.hasCleanup = TRUE]

\* The function the observer effect returned, run before the effect runs
\* again and at unmount.
ObserverEffectCleanup(c) ==
    IF c.hasCleanup
    THEN [CallCleanupRef(c) EXCEPT !.cleanupRef = NoRef, !.hasCleanup = FALSE]
    ELSE c

\* The cleanup of the effect with no dependencies, run at unmount.
UnmountCleanup(c) == CallCleanupRef(c)

\* The viewport applyResponsiveScaling lays out for: the one in its options,
\* or the window's when the options have none.
EffectiveViewport(o, window) == IF o.viewport = NoViewport THEN window ELSE o.viewport

CompInit ==
    \E k \in CompKinds, v \in CompViewports, r \in BOOLEAN :
        comp = [pc |-> "rendered", kind |-> k, viewport |-> v, ready |-> r,
                forceOrientation |-> "null",
                cleanupRef |-> NoRef, hasCleanup |-> FALSE, created |-> 0,
                observers |-> [id \in 1..MaxObservers |-> NoObserver],
                callbacks |-> 0,
                lastResult |-> NoDimensions, lastViewport |-> NoViewport]

\* First commit: the observer effect runs.
CompMount ==
    /\ comp.pc = "rendered"
    /\ comp' = [ObserverEffect(comp) EXCEPT !.pc = "mounted"]
    /\ UNCHANGED <<obsVars, fit, solve, props, conv, apply>>

\* A commit in which a dependency of the observer effect changed (template,
\* runner, readiness, orientation): the previous cleanup, then the body.
CompUpdate(r, fo) ==
    /\ comp.pc = "mounted"
    /\ comp.created < MaxObservers
    /\ fo # "null" => comp.kind = "ResponsiveTemplateViewer"
    /\ comp' = ObserverEffect(ObserverEffectCleanup(
                   [comp EXCEPT !.ready = r, !.forceOrientation = fo]))
    /\ UNCHANGED <<obsVars, fit, solve, props, conv, apply>>

\* Unmount: the cleanup of every effect runs, in the order of the effects.
CompUnmount ==
    /\ comp.pc = "mounted"
    /\ comp' = [UnmountCleanup(ObserverEffectCleanup(comp)) EXCEPT !.pc = "unmounted"]
    /\ UNCHANGED <<obsVars, fit, solve, props, conv, apply>>

\* The window (and the container with it) takes another size; every listener
\* still attached re-arms the timer of its observer.
CompResize(v) ==
    /\ comp.pc # "off"
    /\ v # comp.viewport
    /\ comp' = [comp EXCEPT
                  !.viewport = v,
                  !.observers = [id \in DOMAIN comp.observers |->
                                    IF comp.observers[id].listening
                                    THEN [comp.observers[id] EXCEPT !.pending = TRUE]
                                    ELSE comp.observers[id]]]
    /\ UNCHANGED <<obsVars, fit, solve, props, conv, apply>>

\* The timer of observer id fires: applyResponsiveScaling(container, options)
\* with the options of the creation, then the callback with its result.
CompTimerFire(id) ==
    /\ comp.pc # "off"
    /\ comp.observers[id].pending
    /\ LET o == comp.observers[id]
           v == EffectiveViewport(o, comp.viewport)
       IN  comp' = [comp EXCEPT
                      !.observers[id].pending = FALSE,
                      !.callbacks = 1,
                      !.lastResult = getOptimalDimensions(v[1], v[2], o.forceOrientation),
                      !.lastViewport = comp.viewport]
    /\ UNCHANGED <<obsVars, fit, solve, props, conv, apply>>

CompNext ==
    \/ CompMount
    \/ \E r \in BOOLEAN, fo \in Orientations : CompUpdate(r, fo)
    \/ CompUnmount
    \/ \E v \in CompViewports : CompResize(v)
    \/ \E id \in 1..MaxObservers : CompTimerFire(id)

FitIdle == [pc |-> "off"]
SolveIdle == [pc |-> "off"]
PropsIdle == [pc |-> "off"]
ConvIdle == [pc |-> "off"]
ApplyIdle == [pc |-> "off"]
CompIdle == [pc |-> "off"]

Init ==
    /\ ObsInit
    /\ fit = FitIdle
    /\ solve = SolveIdle
    /\ props = PropsIdle
    /\ conv = ConvIdle
    /\ apply = ApplyIdle
    /\ comp = CompIdle

Next ==
    \/ \E h \in Handles, cb \in BOOLEAN : createResponsiveObserver(h, cb)
    \/ handleResize
    \/ handleOrientationChange
    \/ \E t \in timers : TimerFire(t)
    \/ \E h \in Handles : Cleanup(h) /\ UNCHANGED releasedAgain
    \/ Tick

Spec == Init /\ [][Next]_vars

\* The observer with every call of a cleanup function on an observer already
\* released put on record; the observers are created with a callback.
ReleaseNext ==
    \/ \E h \in Handles : createResponsiveObserver(h, TRUE)
    \/ handleResize
    \/ handleOrientationChange
    \/ \E t \in timers : TimerFire(t)
    \/ \E h \in Handles :
          Cleanup(h) /\ releasedAgain' = (releasedAgain \/ phase[h] = "released")
    \/ Tick

ReleaseSpec == Init /\ [][ReleaseNext]_vars

\* The observers left alone: no window event arrives and no cleanup function
\* is called. The host runs a timer that is due, and time goes on.
QuietNext ==
    \/ \E h \in Handles, cb \in BOOLEAN : createResponsiveObserver(h, cb)
    \/ \E t \in timers : TimerFire(t)
    \/ Tick

QuietSpec ==
    /\ Init
    /\ [][QuietNext]_vars
    /\ WF_vars(\E t \in timers : TimerFire(t))
    /\ WF_vars(Tick)

FitSpecInit ==
    /\ ObsInit
    /\ FitInit
    /\ solve = SolveIdle
    /\ props = PropsIdle
    /\ conv = ConvIdle
    /\ apply = ApplyIdle
    /\ comp = CompIdle

FitSpec == FitSpecInit /\ [][FitNext]_vars

SolveSpecInit ==
    /\ ObsInit
    /\ fit = FitIdle
    /\ SolveInit
    /\ props = PropsIdle
    /\ conv = ConvIdle
    /\ apply = ApplyIdle
    /\ comp = CompIdle

SolveSpec == SolveSpecInit /\ [][SolveNext]_vars

ScaleSpecInit ==
    /\ ObsInit
    /\ fit = FitIdle
    /\ solve = SolveIdle
    /\ PropsInit
    /\ conv = ConvIdle
    /\ apply = ApplyIdle
    /\ comp = CompIdle

ScaleSpec == ScaleSpecInit /\ [][ScaleNext]_vars

ConvSpecInit ==
    /\ ObsInit
    /\ fit = FitIdle
    /\ solve = SolveIdle
    /\ props = PropsIdle
    /\ ConvInit
    /\ apply = ApplyIdle
    /\ comp = CompIdle

ConvSpec == ConvSpecInit /\ [][ConvNext]_vars

ApplySpecInit ==
    /\ ObsInit
    /\ fit = FitIdle
    /\ solve = SolveIdle
    /\ props = PropsIdle
    /\ conv = ConvIdle
    /\ ApplyInit
    /\ comp = CompIdle

ApplySpec == ApplySpecInit /\ [][ApplyNext]_vars

CompSpecInit ==
    /\ ObsInit
    /\ fit = FitIdle
    /\ solve = SolveIdle
    /\ props = PropsIdle
    /\ conv = ConvIdle
    /\ apply = ApplyIdle
    /\ CompInit

CompSpec == CompSpecInit /\ [][CompNext]_vars

(***************************************************************************)
(* Claims about the observer (checked under Spec)                          *)
(***************************************************************************)

\* C1: once the cleanup function of an observer has returned, its callback is
\* never invoked again, whatever resize and orientation signals arrive before
\* and after, and also when a debounce timer was pending at the release.
C1_NoCallbackAfterRelease ==
    [][\A h \in Handles :
          phase[h] = "released" => callbackCount'[h] = callbackCount[h]]_vars

\* A released observer that had a callback and a pending timer when it was
\* released, after which signals arrived and its deadline passed.
C1_Witness ==
    \E h \in Handles :
        /\ phase[h] = "released"
        /\ hasCallback[h]
        /\ cancelledAtRelease[h]
        /\ signalAfterRelease[h]
        /\ lastSignalAt[h] # NoTime
        /\ now > lastSignalAt[h] + DebounceMs + SettleDelayMs

\* C2: a burst of signals collapses to one invocation: while a timer is pending
\* no invocation has happened since the last signal, there is exactly one
\* timer and it is due no earlier than debounceMs after that signal; once the
\* timer has fired the observer is idle with exactly one invocation since the
\* last signal, and the callback was called once per invocation.
C2_BurstCollapsesToOne ==
    \A h \in Handles :
        (phase[h] = "active" /\ hasCallback[h]) =>
            /\ callbackCount[h] = applyCount[h]
            /\ \/ /\ Cardinality(PendingOf(h)) = 1
                  /\ appliesSinceSignal[h] = 0
                  /\ lastSignalAt[h] # NoTime
                  /\ \A t \in PendingOf(h) :
                        /\ t.id = resizeTimeout[h]
                        /\ t.deadline >= lastSignalAt[h] + DebounceMs
               \/ /\ PendingOf(h) = {}
                  /\ appliesSinceSignal[h] = 1

\* A burst (a signal that replaced a timer armed earlier) has ended in exactly
\* one invocation and one callback call, and the observer is idle again.
C2_Witness ==
    \E h \in Handles :
        /\ phase[h] = "active"
        /\ hasCallback[h]
        /\ burstReset[h]
        /\ PendingOf(h) = {}
        /\ appliesSinceSignal[h] = 1
        /\ applyCount[h] = 1
        /\ callbackCount[h] = 1

\* C3 (as claimed): after an orientation change received at time t the
\* orchestrator is not invoked before t + debounceMs + 100, whatever resize
\* signals follow the orientation change.
C3_SettleDelayAlwaysKept ==
    [][\A h \in Handles :
          (applyCount'[h] > applyCount[h] /\ orientAt[h] # NoTime) =>
              now >= orientAt[h] + DebounceMs + SettleDelayMs]_vars

\* C24: in every reachable state an observer has at most one pending timer,
\* the one its closure last armed: a signal cancels the pending timer before
\* it schedules the next, whatever the interleaving of resize signals,
\* orientation changes, timer firings and releases.
C24_SinglePendingTimer ==
    \A h \in Handles :
        /\ Cardinality(PendingOf(h)) <= 1
        /\ \A t \in PendingOf(h) : t.id = resizeTimeout[h] /\ phase[h] = "active"

\* Both observers have a timer pending after signals replaced earlier ones.
C24_Witness ==
    /\ \A h \in Handles : Cardinality(PendingOf(h)) = 1 /\ burstReset[h]
    /\ \E h \in Handles : applyCount[h] >= 1

\* What an observer owns: its pending timer, the id in its closure, its
\* listeners, its life cycle and the invocations made for it.
OwnedBy(g) ==
    <<PendingOf(g), resizeTimeout[g], g \in resizeListeners, g \in orientListeners,
      phase[g], applyCount[g], callbackCount[g]>>

\* C25: observers are isolated. A step in which an observer is created or
\* released, or in which its timer fires, leaves everything another observer
\* owns as it is; a window event re-arms the timer of each listening
\* observer from that observer's own delay only and leaves the ones not
\* listening alone; so a release of one observer never takes a pending
\* invocation from another.
C25_HandlesIsolated ==
    [][\A h \in Handles : \A g \in Handles \ {h} :
          /\ (phase'[h] # phase[h] \/ applyCount'[h] # applyCount[h]) =>
                OwnedBy(g)' = OwnedBy(g)
          /\ (phase' = phase /\ applyCount' = applyCount /\ now' = now) =>
                IF g \in resizeListeners \cup orientListeners
                THEN /\ Cardinality(PendingOf(g)') = 1
                     /\ \A t \in PendingOf(g)' :
                           t.deadline \in {now + DebounceMs,
                                           now + DebounceMs + SettleDelayMs}
                ELSE OwnedBy(g)' = OwnedBy(g)]_vars

\* One observer was released while the other had work pending; the other
\* was still invoked, with its callback, after that release.
C25_Witness ==
    \E h \in Handles : \E g \in Handles \ {h} :
        /\ phase[h] = "released" /\ cancelledAtRelease[h] /\ signalAfterRelease[h]
        /\ phase[g] = "active" /\ hasCallback[g]
        /\ appliesSinceSignal[g] = 1 /\ callbackCount[g] >= 1

(***************************************************************************)
(* Claims about the text fitter (checked under FitSpec)                    *)
(***************************************************************************)

ValidStep(f) == f.step > 0 /\ f.step < 100
RanLoop(f) == f.pc = "done" /\ f.result.method # "word-wrap"

\* C4 (as claimed): a fit whose original size is above the floor never returns
\* a font size below the floor (here already for a step fraction inside (0,1)).
C4_NeverBelowFloor ==
    (RanLoop(fit) /\ ValidStep(fit) /\ fit.originalFontSize > fit.minAllowedSize) =>
        /\ fit.result.fontSize >= fit.minAllowedSize
        /\ fit.result.fontSize >= fit.minFontSize

\* C5: the reduction loop makes at most maxAttempts (50) iterations whatever
\* the measurement provider reports; the invocation can always go on until it
\* returns, and what it returns is a result object whose attempts are within
\* the bound and whose fits is what the final measurement reported.
C5_LoopBounded ==
    /\ fit.attempts <= MaxAttempts
    /\ fit.pc = "loop" => ENABLED FitNext
    /\ fit.pc = "done" =>
          /\ fit.result.method \in {"word-wrap", "font-reduction", "hybrid"}
          /\ fit.result.attempts = fit.attempts
          /\ fit.result.attempts <= MaxAttempts
          /\ fit.result.fits = (fit.sawWidthFit /\ fit.sawHeightFit)

\* The bound was hit under a provider that answers arbitrarily, and the
\* invocation returned a result that reports the overflow.
C5_Witness ==
    /\ fit.pc = "done"
    /\ fit.provider.kind = "arbitrary"
    /\ fit.result.attempts = MaxAttempts
    /\ ~fit.result.fits
    /\ fit.step = DefaultStep

\* C6 (as claimed): when the box still overflows after the reduction loop, the
\* method is hybrid exactly when preferWordWrap is set and wrapping was
\* re-enabled; without preferWordWrap the method is font-reduction, the
\* element stays in no-wrap mode and fits is false (stated here for the
\* deterministic measurement providers, whose answers do not change between
\* two measurements of the same element state).
C6_HybridOnlyWithWrap ==
    (RanLoop(fit) /\ ~fit.fits /\ fit.provider.kind = "proportional") =>
        IF fit.preferWordWrap
        THEN fit.result.method = "hybrid" /\ fit.whiteSpace = "normal"
        ELSE /\ fit.result.method = "font-reduction"
             /\ fit.whiteSpace = "nowrap"
             /\ ~fit.result.fits

\* C10 (as claimed): a step fraction >= 1 or <= 0 is rejected before any font
\* size is changed, so neither the element's font size nor the size the
\* invocation works with ever reaches 0 or a negative value.
C10_BadStepNeverShrinksToZero ==
    (fit.pc # "idle" /\ ~ValidStep(fit)) =>
        /\ fit.fontSize > 0
        /\ fit.currentFontSize > 0

\* C13 (as claimed): an invocation that finds the element's size already at or
\* below the floor makes no reduction iteration, returns the size it found at
\* entry and reports the method "unchanged".
C13_AtFloorReportsUnchanged ==
    (/\ fit.pc = "done"
     /\ fit.originalFontSize <=
            minAllowedSize(fit.originalFontSize, fit.minFontSize, fit.maxReduction)) =>
        /\ fit.result.attempts = 0
        /\ fit.result.fontSize = fit.originalFontSize
        /\ fit.result.method = "unchanged"

\* C14: the word-wrap attempt is made only when preferWordWrap is set and the
\* text contains whitespace; when the wrapped box fits on both axes the
\* invocation returns word-wrap with reduction 0, fits true and the font size
\* it found, without entering the reduction loop; and every word-wrap result
\* comes from such an attempt.
C14_WordWrapAttempt ==
    fit.pc \in {"loop", "done"} =>
        /\ fit.triedWrap => (fit.preferWordWrap /\ fit.hasWhitespace)
        /\ (fit.pc = "done" /\ fit.result.method = "word-wrap") =>
              /\ fit.triedWrap
              /\ fit.whiteSpace = "normal"
              /\ fit.result.reduction = [isNaN |-> FALSE, permille |-> 0]
              /\ fit.result.fits
              /\ fit.result.fontSize = fit.originalFontSize
              /\ fit.fontSize = fit.originalFontSize
              /\ fit.attempts = 0
        /\ (fit.pc = "done" /\ fit.result.method # "word-wrap"
               /\ fit.provider.kind = "proportional" /\ fit.triedWrap) =>
              fit.originalFontSize > fit.provider.wrapSize

\* A text with a space, preferWordWrap set, a box the wrapped text fits but
\* the single line does not: the invocation returned word-wrap.
C14_Witness ==
    /\ fit.pc = "done"
    /\ fit.result.method = "word-wrap"
    /\ fit.preferWordWrap /\ fit.hasSpace
    /\ fit.provider.kind = "proportional"
    /\ fit.fontSize > fit.provider.fitSize
    /\ fit.fontSize <= fit.provider.wrapSize
    /\ fit.attempts = 0

\* C15: with a step fraction inside (0,1) no step of an invocation raises the
\* font size: the size the loop works with and the size set on the element
\* stay at or below the size found at entry, the returned size is at most that
\* size and the returned reduction is a number >= 0.
C15_NeverGrows ==
    (fit.pc \in {"loop", "done"} /\ ValidStep(fit)) =>
        /\ fit.currentFontSize <= fit.originalFontSize
        /\ fit.fontSize <= fit.originalFontSize
        /\ fit.pc = "done" =>
              /\ fit.result.fontSize <= fit.originalFontSize
              /\ ~fit.result.reduction.isNaN
              /\ fit.result.reduction.permille >= 0

\* An invocation with the default step that reduced the size several times.
C15_Witness ==
    /\ fit.pc = "done"
    /\ fit.step = DefaultStep
    /\ fit.result.attempts >= 3
    /\ fit.result.fontSize < fit.originalFontSize
    /\ fit.result.reduction.permille > 0

(***************************************************************************)
(* Claims about the dimension solver (checked under SolveSpec)             *)
(***************************************************************************)

Solved == solve.pc = "solved"
PositiveViewport == solve.viewportWidth > 0 /\ solve.viewportHeight > 0

\* C7: for every viewport with positive width and height and every
\* orientation preference, the offsets are >= 0 and the fitted rectangle is
\* not larger than the viewport on either axis.
C7_FitsInsideViewport ==
    (Solved /\ PositiveViewport) =>
        /\ solve.result.offsetX.n >= 0
        /\ solve.result.offsetY.n >= 0
        /\ RatLeq(solve.result.width, RatInt(solve.viewportWidth))
        /\ RatLeq(solve.result.height, RatInt(solve.viewportHeight))

\* A forced orientation against the viewport's own shape, letterboxed on one
\* axis and exact on the other.
C7_Witness ==
    /\ Solved
    /\ PositiveViewport
    /\ solve.forceOrientation = "landscape"
    /\ solve.viewportWidth < solve.viewportHeight
    /\ solve.result.offsetX.n = 0
    /\ solve.result.offsetY.n > 0

\* C8 (as claimed): the scale is taken against the orientation-appropriate
\* reference rectangle: fittedWidth / reference width in landscape,
\* fittedWidth / reference height in portrait, the two axis ratios being equal.
C8_ScaleAgainstRotatedReference ==
    (Solved /\ PositiveViewport) =>
        LET r == solve.result
            refW == IF r.orientation = "landscape" THEN BaseWidth ELSE BaseHeight
            refH == IF r.orientation = "landscape" THEN BaseHeight ELSE BaseWidth
        IN  /\ r.scale = RatMul(r.width, 1, refW)
            /\ r.scale = RatMul(r.height, 1, refH)

\* C9 (as claimed): a viewport of zero width or zero height yields an
\* InvalidViewport failure, never a result carrying dimensions.
C9_ZeroViewportRejected ==
    (Solved /\ (solve.viewportWidth = 0 \/ solve.viewportHeight = 0)) =>
        solve.result.kind = "InvalidViewport"

\* C16: a forced landscape or portrait preference is the orientation of the
\* result whatever the viewport's shape; without a forced preference (null,
\* the caller's "auto") the result is landscape exactly when the viewport is
\* wider than tall, so 1920x1080 gives landscape and 1080x1920 portrait.
C16_EffectiveOrientation ==
    Solved =>
        /\ solve.forceOrientation \in {"landscape", "portrait"} =>
              solve.result.orientation = solve.forceOrientation
        /\ (solve.forceOrientation = "null" /\ solve.viewportHeight > 0) =>
              (solve.result.orientation = "landscape" <=>
                  solve.viewportWidth > solve.viewportHeight)
        /\ solve.result.orientation \in {"landscape", "portrait"}

\* The portrait phone viewport 1080x1920 solved without a forced preference.
C16_Witness ==
    /\ Solved
    /\ solve.forceOrientation = "null"
    /\ solve.viewportWidth = BaseHeight /\ solve.viewportHeight = BaseWidth
    /\ solve.result.orientation = "portrait"

(***************************************************************************)
(* Claims about the custom properties (checked under ScaleSpec)            *)
(***************************************************************************)

Derived == props.pc = "derived"

\* The clamp triple of a typography step under a multiplier, written out.
StepTriple(vw, min, max, m) ==
    [min |-> min * m, val |-> vw * m, unit |-> "vw", max |-> max * m]

PixelFontSize ==
    /\ conv.fontSize.present /\ conv.fontSize.hasPx /\ conv.fontSize.num # NaN
    /\ conv.isText /\ ~conv.hasTextFit

Applied == apply.pc = "applied" /\ apply.hasContainer

\* C11 (as claimed): during applyResponsiveScaling an element whose
\* data-text-fit is wrap, ellipsis or none is not handed to the fitter: its
\* font size and its wrap mode are what they were before the call.
C11_StaticModesBypassFitter ==
    Applied =>
        \A i \in DOMAIN apply.children :
            LET el == apply.children[i]
            IN  el.textFit \in {"wrap", "ellipsis", "none"} =>
                    /\ el.fitCalls = 0
                    /\ el.fontSize = el.entryFontSize
                    /\ el.whiteSpace = "initial"

\* C12 (as claimed): the value applyResponsiveScaling returns holds, next to
\* the dimensions, the outcome of every element it fitted, those with fits
\* false included.
C12_OutcomesReturned ==
    Applied =>
        \A i \in DOMAIN apply.children :
            apply.children[i].fitCalls > 0 =>
                /\ "perElementOutcomes" \in DOMAIN apply.returned
                /\ apply.returned.perElementOutcomes[i] = apply.children[i].outcome

(***************************************************************************)
(* Claims about releasing an observer (checked under ReleaseSpec)          *)
(***************************************************************************)

\* C20: the cleanup function is idempotent. After its first call the
\* observer has no listener registered and no timer pending; a later call,
\* also after the timer has fired or while other observers are still at
\* work, changes nothing of the host's or any observer's state, and no
\* callback runs for a released observer.
C20_ReleaseIdempotent ==
    /\ [](\A h \in Handles :
            phase[h] = "released" =>
                /\ h \notin resizeListeners
                /\ h \notin orientListeners
                /\ PendingOf(h) = {})
    /\ [][\A h \in Handles :
            (phase[h] = "released" /\ Cleanup(h)) =>
                UNCHANGED <<now, timers, resizeTimeout, resizeListeners,
                            orientListeners, phase, hasCallback, applyCount,
                            callbackCount>>]_vars
    /\ [][\A h \in Handles :
            phase[h] = "released" => callbackCount'[h] = callbackCount[h]]_vars

\* An observer whose timer had fired was released, received signals
\* afterwards and had its cleanup function called again, while another
\* observer still has a timer pending.
C20_Witness ==
    \E h \in Handles :
        /\ phase[h] = "released"
        /\ releasedAgain
        /\ applyCount[h] >= 1
        /\ signalAfterRelease[h]
        /\ \A g \in Handles \ {h} : phase[g] = "active" /\ PendingOf(g) # {}

(***************************************************************************)
(* Claims about an observer left alone (checked under QuietSpec)           *)
(***************************************************************************)

\* C21: creating an observer arms the debounce timer by itself. When no
\* signal arrives and the handle is not released, applyResponsiveScaling
\* runs exactly once for the observer and its callback, if it has one, is
\* called exactly once: never twice, and once for sure when the timer's
\* deadline is within the time looked at.
C21_InitialInvocation ==
    /\ [](\A h \in Handles :
            /\ applyCount[h] <= 1
            /\ callbackCount[h] = (IF hasCallback[h] THEN applyCount[h] ELSE 0)
            /\ (phase[h] = "active" /\ applyCount[h] = 0) =>
                  \E t \in PendingOf(h) : t.id = resizeTimeout[h])
    /\ \A h \in Handles :
          (phase[h] = "active" /\ \E t \in PendingOf(h) : t.deadline <= MaxTime)
              ~> (applyCount[h] = 1 /\ PendingOf(h) = {})

\* An observer with a callback, created and left alone until its timer fired.
C21_Witness ==
    \E h \in Handles :
        /\ phase[h] = "active"
        /\ hasCallback[h]
        /\ applyCount[h] = 1 /\ callbackCount[h] = 1
        /\ PendingOf(h) = {}
        /\ now >= DebounceMs

(***************************************************************************)
(* Claims about the display components (checked under CompSpec)            *)
(***************************************************************************)

\* C22: in both display components at most one observer is active (listening
\* or with a timer pending) at any time, through every sequence of dependency
\* changes, resizes and timer firings, and none is active before the mount or
\* after the unmount.
C22_OneObserverPerComponent ==
    comp.pc # "off" =>
        /\ Cardinality(ActiveObservers(comp)) <= 1
        /\ comp.pc \in {"rendered", "unmounted"} => ActiveObservers(comp) = {}

\* A component that replaced its observer at least once and was unmounted.
C22_Witness ==
    /\ comp.pc = "unmounted"
    /\ comp.created >= 2

\* C23 (as claimed): the result the callback receives is the layout of the
\* viewport current when the timer fired, not of a viewport captured when
\* the observer was created.
C23_ResultFromCurrentViewport ==
    (comp.pc # "off" /\ comp.callbacks > 0) =>
        \E fo \in Orientations :
            comp.lastResult =
                getOptimalDimensions(comp.lastViewport[1], comp.lastViewport[2], fo)

(***************************************************************************)
(* Further claims about the text fitter (checked under FitSpec)            *)
(***************************************************************************)

\* C26 (as claimed): the floor of the reduction loop is the larger of the
\* minimum font size and the original size times (1 - maxReduction), the
\* option being the largest allowed reduction (30% allowed leaves 70%).
C26_FloorFromAllowedReduction ==
    fit.pc = "loop" =>
        fit.minAllowedSize =
            Max(fit.minFontSize,
                (fit.originalFontSize * (100 - fit.maxReduction)) \div 100)

\* originalSize * (1 - step)^n with the stop test after every factor: the
\* first n at which the width fits, the floor is reached or the iterations
\* are used up, and the size there.
RECURSIVE FirstStop(_, _, _)
FirstStop(f, size, n) ==
    IF \/ size <= f.provider.fitSize
       \/ size <= f.minAllowedSize
       \/ n = MaxAttempts
    THEN [k |-> n, size |-> size]
    ELSE FirstStop(f, (size * (100 - f.step)) \div 100, n + 1)

\* C27: with a deterministic (proportional) measurement provider the loop
\* multiplies by (1 - step) until the width first fits, the floor is reached
\* or the iterations are used up: the reported attempts are the smallest such
\* number k, the returned size is originalSize * (1 - step)^k, both are
\* functions of the inputs, and when the width fits at that size the method
\* is font-reduction with fits true. The step is a fraction from 0 to 1: a
\* larger one makes the size negative, which the style does not take.
C27_SmallestStepCount ==
    (RanLoop(fit) /\ fit.provider.kind = "proportional" /\ fit.step <= 100) =>
        LET stop == FirstStop(fit, fit.originalFontSize, 0)
        IN  /\ fit.result.attempts = stop.k
            /\ fit.result.fontSize = stop.size
            /\ stop.size <= fit.provider.fitSize =>
                   /\ fit.result.method = "font-reduction"
                   /\ fit.result.fits

\* 36px that needs three steps of 2% to fit a box that holds 34px.
C27_Witness ==
    /\ RanLoop(fit)
    /\ fit.provider.kind = "proportional"
    /\ fit.originalFontSize = Px(36)
    /\ fit.step = DefaultStep
    /\ fit.result.attempts = 3
    /\ fit.result.fontSize = 33882
    /\ fit.result.method = "font-reduction"
    /\ fit.result.fits

\* The floor derived from the size recorded at the first invocation, read
\* either way: the option as the fraction kept (as the code takes it) or as
\* the fraction given up (as C26 words it), whichever is lower.
RecordedFloor(f) ==
    Min(minAllowedSize(f.datasetOriginalFontSize, f.minFontSize, f.maxReduction),
        minAllowedSize(f.datasetOriginalFontSize, f.minFontSize, 100 - f.maxReduction))

\* C30 (as claimed): over repeated invocations on one element the font size
\* never falls below the floor derived from the original size recorded at the
\* first invocation. One step below that floor is let pass here, so that the
\* last step of a single invocation (C4) is not what is counted.
C30_NoCompounding ==
    (fit.pc = "done" /\ ValidStep(fit) /\ fit.fontSize < fit.datasetOriginalFontSize) =>
        fit.fontSize >= Reduce(RecordedFloor(fit), fit.step)

(***************************************************************************)
(* Further claims about applyResponsiveScaling (checked under ApplySpec)   *)
(***************************************************************************)

\* C28: one applyResponsiveScaling with text fitting enabled hands every
\* matched element with a non-blank text to the fitter exactly once and no
\* blank one at all, whatever the outcome of the elements before it was.
C28_EveryChildFittedOnce ==
    (Applied /\ apply.options.enableSmartTextFit) =>
        \A i \in DOMAIN apply.children :
            LET el == apply.children[i]
            IN  /\ el.fitCalls = (IF el.blank THEN 0 ELSE 1)
                /\ ~el.blank => el.outcome # NoOutcome

\* An element that does not fit, followed by one that was fitted all the same.
C28_Witness ==
    /\ Applied
    /\ apply.options.enableSmartTextFit
    /\ Len(apply.children) >= 2
    /\ apply.children[1].fitCalls = 1
    /\ ~apply.children[1].outcome.fits
    /\ apply.children[2].fitCalls = 1

(***************************************************************************)
(* Further claims about the custom properties (checked under ScaleSpec)    *)
(***************************************************************************)

\* C29 (as claimed): for every positive pixel value the clamp triple of
\* pixelsToViewport has a floor that is at most its ceiling.
C29_FloorAtMostCeiling ==
    (props.pc # "off" /\ props.pixelsArg > 0) =>
        props.pixelsValue.min <= props.pixelsValue.max

====
